---------------------------- MODULE Spec2Model ----------------------------
(***************************************************************************)
(* restrictive-git-proxy (server.py): one run of the authorization gate.   *)
(*                                                                         *)
(* A Python str is modelled as a sequence of one-character strings, so     *)
(* that the regular expressions, the shell tokenizer, the shell quoting    *)
(* and the glob matching of the program are computed character by          *)
(* character, as the program computes them.                                *)
(***************************************************************************)
EXTENDS Integers, Sequences, FiniteSets, TLC

(***************************************************************************)
(* Bounds of the model.                                                    *)
(***************************************************************************)
MaxTokenLen == 6
MaxPathLen == 4
MaxGlobLen == 3
MaxReqLen == 2
MaxAllowLen == 2
MaxItemLen == 6
MaxNameLen == 2
MaxRunPathLen == 2

(***************************************************************************)
(* Characters and strings.                                                 *)
(***************************************************************************)
\* The characters Python's \s matches, among those the model draws.
Whitespace == {" ", "\t", "\n", "\r"}

\* s[i..] and s[..i] of Python, 1-based.
From(s, i) == SubSeq(s, i, Len(s))

\* The number of leading characters of s[i..] that satisfy the class: what a
\* greedy X+ consumes when the next regex item cannot match a character of X.
RECURSIVE Span(_, _, _)
Span(s, i, Excluded) ==
  IF i > Len(s) \/ s[i] \in Excluded THEN 0 ELSE 1 + Span(s, i + 1, Excluded)

\* Python's `$` (no re.MULTILINE) at position i of s: the end of the string,
\* or just before a newline that is the last character.
AtDollar(s, i) == i = Len(s) + 1 \/ (i = Len(s) /\ s[i] = "\n")

\* Mutant: only a leading ".." is looked for.
HasDotDot_leading_only(s) == Len(s) >= 2 /\ s[1] = "." /\ s[2] = "."

\* ".." in s
HasDotDot(s) == \E i \in 1..(Len(s) - 1) : s[i] = "." /\ s[i + 1] = "."

\* s.startswith("/")
StartsWithSlash(s) == Len(s) >= 1 /\ s[1] = "/"

\* s.split(":", 1): the parts before and after the first ":".
SplitFirstColon(s) ==
  LET n == Span(s, 1, {":"})
  IN  <<SubSeq(s, 1, n), From(s, n + 2)>>

SSH_PATH == <<"/", "u", "s", "r", "/", "b", "i", "n", "/", "s", "s", "h">>
GIT_RECEIVE_PACK ==
  <<"g", "i", "t", "-", "r", "e", "c", "e", "i", "v", "e", "-", "p", "a", "c", "k">>
GIT_UPLOAD_ARCHIVE ==
  <<"g", "i", "t", "-", "u", "p", "l", "o", "a", "d", "-", "a", "r", "c", "h", "i", "v", "e">>
GIT_UPLOAD_PACK ==
  <<"g", "i", "t", "-", "u", "p", "l", "o", "a", "d", "-", "p", "a", "c", "k">>
GitCommands == {GIT_RECEIVE_PACK, GIT_UPLOAD_ARCHIVE, GIT_UPLOAD_PACK}

(***************************************************************************)
(* Exceptions: the class, the message template and the values formatted    *)
(* into it.                                                                *)
(***************************************************************************)
NoError == [exc |-> "none", rule |-> "none", args |-> <<>>]
ConfigError(rule, args) == [exc |-> "ConfigError", rule |-> rule, args |-> args]
ClientError(rule, args) == [exc |-> "ClientError", rule |-> rule, args |-> args]
OSError(rule, args) == [exc |-> "OSError", rule |-> rule, args |-> args]

(***************************************************************************)
(* check_config                                                            *)
(***************************************************************************)
\* client_name_re = ^\S+$ , with re.match
client_name_re(s) ==
  LET n == Span(s, 1, Whitespace)
  IN  n >= 1 /\ AtDollar(s, n + 1)

\* allow_list_item_re = ^[^\s@:]+@[^\s@:]+:\S+$ , with re.match
allow_list_item_re(s) ==
  LET HostCls == Whitespace \cup {"@", ":"}
      n1 == Span(s, 1, HostCls)
      n2 == Span(s, n1 + 2, HostCls)
      n3 == Span(s, n1 + n2 + 3, Whitespace)
  IN  /\ n1 >= 1
      /\ n1 + 1 <= Len(s) /\ s[n1 + 1] = "@"
      /\ n2 >= 1
      /\ n1 + n2 + 2 <= Len(s) /\ s[n1 + n2 + 2] = ":"
      /\ n3 >= 1
      /\ AtDollar(s, n1 + n2 + n3 + 3)

\* The first item of the list, from index i, that allow_list_item_re rejects
\* (0: none).
RECURSIVE FirstBadItem(_, _)
FirstBadItem(elems, i) ==
  IF i > Len(elems) THEN 0
  ELSE IF ~allow_list_item_re(elems[i].s) THEN i
  ELSE FirstBadItem(elems, i + 1)

\* The body of the loop over config.items(), from member i on.
RECURSIVE CheckMembers(_, _)
CheckMembers(members, i) ==
  IF i > Len(members) THEN NoError
  ELSE
    LET name == members[i].key
        allow_list == members[i].value
        bad == FirstBadItem(allow_list.elems, 1)
    IN  IF ~client_name_re(name)
          THEN ConfigError("Invalid client name", <<name>>)
        ELSE IF allow_list.type # "array"
          THEN ConfigError("is not a JSON array", <<name>>)
        ELSE IF \E k \in 1..Len(allow_list.elems) :
                  allow_list.elems[k].type # "string"
          THEN ConfigError("is not an array of strings", <<name>>)
        ELSE IF bad # 0
          THEN ConfigError("Invalid allow list item",
                           <<allow_list.elems[bad].s, name>>)
        ELSE CheckMembers(members, i + 1)

check_config(cfg) ==
  IF cfg.type # "object"
    THEN ConfigError("Config must be a JSON object", <<>>)
  ELSE CheckMembers(cfg.members, 1)

(***************************************************************************)
(* get_requested_remote: the regular expression of the target              *)
(*   ^(?P<host>[^\s@:]+@[^\s@:]+):(?P<path>[^'\s]+)$  with re.match         *)
(***************************************************************************)
\* m is None: ok = FALSE.  Otherwise the groups host and path.
target_re(s) ==
  LET HostCls == Whitespace \cup {"@", ":"}
      n1 == Span(s, 1, HostCls)
      n2 == Span(s, n1 + 2, HostCls)
      n3 == Span(s, n1 + n2 + 3, Whitespace \cup {"'"})
      ok == /\ n1 >= 1
            /\ n1 + 1 <= Len(s) /\ s[n1 + 1] = "@"
            /\ n2 >= 1
            /\ n1 + n2 + 2 <= Len(s) /\ s[n1 + n2 + 2] = ":"
            /\ n3 >= 1
            /\ AtDollar(s, n1 + n2 + n3 + 3)
  IN  IF ok
        THEN [ok |-> TRUE,
              host |-> SubSeq(s, 1, n1 + n2 + 1),
              path |-> SubSeq(s, n1 + n2 + 3, n1 + n2 + n3 + 2)]
      ELSE [ok |-> FALSE, host |-> <<>>, path |-> <<>>]

(***************************************************************************)
(* shlex.split(s): POSIX mode, whitespace_split, no comments.              *)
(***************************************************************************)
ShlexWhitespace == {" ", "\t", "\r", "\n"}
ShlexQuotes == {"'", "\""}

\* shlex.read_token, repeated to the end of the input.  st is the lexer's
\* state (" ", "a", a quote or the escape), esc its escapedstate, tok the
\* token being built, quoted whether it held a quoted part, out the tokens
\* emitted so far.
RECURSIVE Lex(_, _, _, _, _, _, _)
Lex(s, i, st, esc, tok, quoted, out) ==
  IF i > Len(s) THEN
    IF st \in ShlexQuotes THEN [ok |-> FALSE, tokens |-> <<>>]
    ELSE IF st = "\\" THEN [ok |-> FALSE, tokens |-> <<>>]
    ELSE IF tok # <<>> \/ quoted THEN [ok |-> TRUE, tokens |-> Append(out, tok)]
    ELSE [ok |-> TRUE, tokens |-> out]
  ELSE
    LET c == s[i] IN
    IF st = " " THEN
      IF c \in ShlexWhitespace THEN Lex(s, i + 1, " ", esc, tok, quoted, out)
      ELSE IF c = "\\" THEN Lex(s, i + 1, "\\", "a", tok, quoted, out)
      ELSE IF c \in ShlexQuotes THEN Lex(s, i + 1, c, esc, tok, quoted, out)
      ELSE Lex(s, i + 1, "a", esc, <<c>>, quoted, out)
    ELSE IF st \in ShlexQuotes THEN
      IF c = st THEN Lex(s, i + 1, "a", esc, tok, TRUE, out)
      ELSE IF c = "\\" /\ st = "\"" THEN Lex(s, i + 1, "\\", st, tok, TRUE, out)
      ELSE Lex(s, i + 1, st, esc, Append(tok, c), TRUE, out)
    ELSE IF st = "\\" THEN
      IF esc \in ShlexQuotes /\ c # "\\" /\ c # esc
        THEN Lex(s, i + 1, esc, esc, tok \o <<"\\", c>>, quoted, out)
      ELSE Lex(s, i + 1, esc, esc, Append(tok, c), quoted, out)
    ELSE \* st = "a"
      IF c \in ShlexWhitespace THEN
        IF tok # <<>> \/ quoted
          THEN Lex(s, i + 1, " ", " ", <<>>, FALSE, Append(out, tok))
        ELSE Lex(s, i + 1, " ", " ", <<>>, FALSE, out)
      ELSE IF c \in ShlexQuotes THEN Lex(s, i + 1, c, esc, tok, quoted, out)
      ELSE IF c = "\\" THEN Lex(s, i + 1, "\\", "a", tok, quoted, out)
      ELSE Lex(s, i + 1, "a", esc, Append(tok, c), quoted, out)

\* ok = FALSE: ValueError (no closing quotation, no escaped character).
shlex_split(s) == Lex(s, 1, " ", " ", <<>>, FALSE, <<>>)

(***************************************************************************)
(* shlex.quote(s)                                                          *)
(***************************************************************************)
\* The characters of [\w@%+=:,./-] with re.ASCII: all others force quoting.
SafeChars ==
  {"a", "b", "c", "d", "e", "f", "g", "h", "i", "j", "k", "l", "m",
   "n", "o", "p", "q", "r", "s", "t", "u", "v", "w", "x", "y", "z",
   "A", "B", "C", "D", "E", "F", "G", "H", "I", "J", "K", "L", "M",
   "N", "O", "P", "Q", "R", "S", "T", "U", "V", "W", "X", "Y", "Z",
   "0", "1", "2", "3", "4", "5", "6", "7", "8", "9", "_",
   "@", "%", "+", "=", ":", ",", ".", "/", "-"}

\* s.replace("'", "'\"'\"'")
RECURSIVE ReplaceQuotes(_)
ReplaceQuotes(s) ==
  IF s = <<>> THEN <<>>
  ELSE (IF Head(s) = "'" THEN <<"'", "\"", "'", "\"", "'">> ELSE <<Head(s)>>)
       \o ReplaceQuotes(Tail(s))

\* Mutant: an unsafe string is put in double quotes, as it is.
shlex_quote_double(s) ==
  IF s = <<>> THEN <<"'", "'">>
  ELSE IF \A i \in 1..Len(s) : s[i] \in SafeChars THEN s
  ELSE <<"\"">> \o s \o <<"\"">>

shlex_quote(s) ==
  IF s = <<>> THEN <<"'", "'">>
  ELSE IF \A i \in 1..Len(s) : s[i] \in SafeChars THEN s
  ELSE <<"'">> \o ReplaceQuotes(s) \o <<"'">>

(***************************************************************************)
(* fnmatch.fnmatchcase(name, pat), for patterns without the range          *)
(* character "-" inside brackets.                                          *)
(***************************************************************************)
\* The index of the "]" that closes the bracket opened at pat[j] (0: none, the
\* "[" is then an ordinary character): a "!" and then a "]" right after the
\* "[" belong to the set.
RECURSIVE FindClose(_, _)
FindClose(pat, k) ==
  IF k > Len(pat) THEN 0
  ELSE IF pat[k] = "]" THEN k
  ELSE FindClose(pat, k + 1)

BracketClose(pat, j) ==
  LET k1 == IF j + 1 <= Len(pat) /\ pat[j + 1] = "!" THEN j + 2 ELSE j + 1
      k2 == IF k1 <= Len(pat) /\ pat[k1] = "]" THEN k1 + 1 ELSE k1
  IN  FindClose(pat, k2)

\* Whether character c is matched by the bracket expression pat[j..close].
BracketMatches(pat, j, close, c) ==
  LET negated == pat[j + 1] = "!"
      first == IF negated THEN j + 2 ELSE j + 1
      member == \E k \in first..(close - 1) : pat[k] = c
  IN  IF negated THEN ~member ELSE member

\* name[i..] matches pat[j..]
RECURSIVE GlobMatch(_, _, _, _)
GlobMatch(name, i, pat, j) ==
  IF j > Len(pat) THEN i > Len(name)
  ELSE IF pat[j] = "*" THEN
    \/ GlobMatch(name, i, pat, j + 1)
    \/ (i <= Len(name) /\ GlobMatch(name, i + 1, pat, j))
  ELSE IF pat[j] = "?" THEN
    i <= Len(name) /\ GlobMatch(name, i + 1, pat, j + 1)
  ELSE IF pat[j] = "[" /\ BracketClose(pat, j) # 0 THEN
    /\ i <= Len(name)
    /\ BracketMatches(pat, j, BracketClose(pat, j), name[i])
    /\ GlobMatch(name, i + 1, pat, BracketClose(pat, j) + 1)
  ELSE
    i <= Len(name) /\ name[i] = pat[j] /\ GlobMatch(name, i + 1, pat, j + 1)

\* Mutant: fnmatch.fnmatch where os.path.normcase folds the case.
NormCase(s) == [i \in 1..Len(s) |-> IF s[i] = "A" THEN "a" ELSE s[i]]
fnmatch_normcase(name, pat) == GlobMatch(NormCase(name), 1, NormCase(pat), 1)

fnmatchcase(name, pat) == GlobMatch(name, 1, pat, 1)

(***************************************************************************)
(* assert_client_allowed                                                   *)
(***************************************************************************)
\* Mutant: a host that does not match ends the loop (break for continue).
RECURSIVE AllowLoop_break(_, _, _, _)
AllowLoop_break(allow_list, i, host, path) ==
  IF i > Len(allow_list) THEN FALSE
  ELSE
    LET allowed_host == SplitFirstColon(allow_list[i])[1]
        allowed_path == SplitFirstColon(allow_list[i])[2]
    IN  IF ~fnmatchcase(host, allowed_host) THEN FALSE
        ELSE IF ~fnmatchcase(path, allowed_path)
          THEN AllowLoop_break(allow_list, i + 1, host, path)
        ELSE TRUE

\* The loop over allow_list, from item i on: TRUE when it returns (the client
\* is allowed), FALSE when it is exhausted (ClientError is raised).
RECURSIVE AllowLoop(_, _, _, _)
AllowLoop(allow_list, i, host, path) ==
  IF i > Len(allow_list) THEN FALSE
  ELSE
    LET allowed_host == SplitFirstColon(allow_list[i])[1]
        allowed_path == SplitFirstColon(allow_list[i])[2]
    IN  IF ~fnmatchcase(host, allowed_host)
          THEN AllowLoop(allow_list, i + 1, host, path)
        ELSE IF ~fnmatchcase(path, allowed_path)
          THEN AllowLoop(allow_list, i + 1, host, path)
        ELSE TRUE

\* Mutant: the path half of the test is dropped; a matching host suffices.
assert_client_allowed_host_only(allow_list, host, path) ==
  \E i \in 1..Len(allow_list) :
    fnmatchcase(host, SplitFirstColon(allow_list[i])[1])

\* Mutant: the loop that stops at the first host that does not match.
assert_client_allowed_break(allow_list, host, path) ==
  AllowLoop_break(allow_list, 1, host, path)

assert_client_allowed(allow_list, host, path) ==
  AllowLoop(allow_list, 1, host, path)

(***************************************************************************)
(* connect_client_to_remote: the arguments of os.execl                     *)
(***************************************************************************)
\* Mutant: argv[0] is forgotten, so the host becomes argv[0].
execl_args_no_argv0(cmd, host, path) ==
  <<SSH_PATH, host, cmd \o <<" ">> \o shlex_quote(path)>>

execl_args(cmd, host, path) ==
  <<SSH_PATH, SSH_PATH, host, cmd \o <<" ">> \o shlex_quote(path)>>

(***************************************************************************)
(* The decoded configuration: what json.load returns.                      *)
(***************************************************************************)
Str(s) == [type |-> "string", s |-> s]
NonStr == [type |-> "other", s |-> <<>>]
Arr(elems) == [type |-> "array", elems |-> elems]
NonArr == [type |-> "other", elems |-> <<>>]
Member(k, v) == [key |-> k, value |-> v]
Obj(members) == [type |-> "object", members |-> members]
NonObj == [type |-> "other", members |-> <<>>]
NoConfig == [type |-> "unset", members |-> <<>>]

\* key in config
HasKey(cfg, k) == \E i \in 1..Len(cfg.members) : cfg.members[i].key = k

\* config[key], the list of strings of a checked configuration
Lookup(cfg, k) ==
  LET i == CHOOSE j \in 1..Len(cfg.members) : cfg.members[j].key = k
      elems == cfg.members[i].value.elems
  IN  [j \in 1..Len(elems) |-> elems[j].s]

(***************************************************************************)
(* The state of one run.                                                   *)
(***************************************************************************)
VARIABLES
  argv,                     \* sys.argv
  config_file,              \* the file at config_path: status and decoded value
  environ,                  \* os.environ: SSH_ORIGINAL_COMMAND, if set
  pc,                       \* the statement of main / get_requested_remote
  config,                   \* main's locals
  client_name,
  client_allow_list,
  ssh_original_command,     \* get_requested_remote's locals
  command,
  args,
  requested_host_and_path,
  requested_host,
  requested_path,
  exception,                \* the exception propagating out of main
  execl_calls,              \* the os.execl calls made, in order
  exit_status,              \* <<>> while running, <<n>> once exited with n
  stages                    \* history: the stages evaluated, in order

inputs == <<argv, config_file, environ>>
main_locals == <<config, client_name, client_allow_list>>
request_locals ==
  <<ssh_original_command, command, args, requested_host_and_path,
    requested_host, requested_path>>
vars ==
  <<argv, config_file, environ, pc, config, client_name, client_allow_list,
    ssh_original_command, command, args, requested_host_and_path,
    requested_host, requested_path, exception, execl_calls, exit_status,
    stages>>

(***************************************************************************)
(* main                                                                    *)
(***************************************************************************)
\* (_executable, config_path, client_name) = sys.argv
ParseArgv ==
  /\ pc = "parse_argv"
  /\ stages' = Append(stages, "argv")
  /\ IF Len(argv) = 3
       THEN /\ client_name' = argv[3]
            /\ pc' = "load_config"
            /\ UNCHANGED exception
       ELSE /\ exception' = ConfigError("Syntax", <<>>)
            /\ pc' = "raised"
            /\ UNCHANGED client_name
  /\ UNCHANGED <<inputs, config, client_allow_list, request_locals,
                 execl_calls, exit_status>>

\* with open(config_path) as fd: config = json.load(fd)
LoadConfig ==
  /\ pc = "load_config"
  /\ stages' = Append(stages, "load_config")
  /\ IF config_file.status = "ok"
       THEN /\ config' = config_file.doc
            /\ pc' = "check_config"
            /\ UNCHANGED exception
       ELSE /\ exception' =
                 IF config_file.status = "invalid"
                   THEN ConfigError("Invalid configuration", <<>>)
                 ELSE IF config_file.status = "missing"
                   THEN ConfigError("Non-existent configuration", <<>>)
                 ELSE ConfigError("Unreadable configuration", <<>>)
            /\ pc' = "raised"
            /\ UNCHANGED config
  /\ UNCHANGED <<inputs, client_name, client_allow_list, request_locals,
                 execl_calls, exit_status>>

\* check_config(config)
CheckConfig ==
  /\ pc = "check_config"
  /\ stages' = Append(stages, "check_config")
  /\ IF check_config(config) = NoError
       THEN pc' = "lookup_client" /\ UNCHANGED exception
       ELSE exception' = check_config(config) /\ pc' = "raised"
  /\ UNCHANGED <<inputs, main_locals, request_locals, execl_calls,
                 exit_status>>

\* client_allow_list = config[client_name]
LookupClient ==
  /\ pc = "lookup_client"
  /\ stages' = Append(stages, "lookup_client")
  /\ IF HasKey(config, client_name)
       THEN /\ client_allow_list' = Lookup(config, client_name)
            /\ pc' = "read_environ"
            /\ UNCHANGED exception
       ELSE /\ exception' = ConfigError("Unknown client name", <<client_name>>)
            /\ pc' = "raised"
            /\ UNCHANGED client_allow_list
  /\ UNCHANGED <<inputs, config, client_name, request_locals, execl_calls,
                 exit_status>>

(***************************************************************************)
(* get_requested_remote                                                    *)
(***************************************************************************)
\* ssh_original_command = os.environ["SSH_ORIGINAL_COMMAND"]
ReadEnviron ==
  /\ pc = "read_environ"
  /\ stages' = Append(stages, "read_environ")
  /\ IF environ.present
       THEN /\ ssh_original_command' = environ.value
            /\ pc' = "tokenize"
            /\ UNCHANGED exception
       ELSE /\ exception' = ConfigError("this is not a shell", <<>>)
            /\ pc' = "raised"
            /\ UNCHANGED ssh_original_command
  /\ UNCHANGED <<inputs, main_locals, command, args, requested_host_and_path,
                 requested_host, requested_path, execl_calls, exit_status>>

\* (command, *args) = shlex.split(ssh_original_command)
\* ValueError is raised by shlex.split, or by the unpacking of an empty list.
Tokenize ==
  /\ pc = "tokenize"
  /\ stages' = Append(stages, "tokenize")
  /\ LET r == shlex_split(ssh_original_command)
     IN  IF r.ok /\ r.tokens # <<>>
           THEN /\ command' = Head(r.tokens)
                /\ args' = Tail(r.tokens)
                /\ pc' = "check_command"
                /\ UNCHANGED exception
           ELSE /\ exception' = ClientError("Failed to tokenize command",
                                            <<ssh_original_command>>)
                /\ pc' = "raised"
                /\ UNCHANGED <<command, args>>
  /\ UNCHANGED <<inputs, main_locals, ssh_original_command,
                 requested_host_and_path, requested_host, requested_path,
                 execl_calls, exit_status>>

\* Mutant: the number of arguments is tested before the command name.
CheckCommand_args_first ==
  /\ pc = "check_command"
  /\ stages' = Append(stages, "check_command")
  /\ IF Len(args) # 1
       THEN /\ exception' = ClientError("Expected exactly one argument", args)
            /\ pc' = "raised"
       ELSE IF command \in GitCommands
         THEN pc' = "unpack_args" /\ UNCHANGED exception
       ELSE /\ exception' = ClientError("Invalid git command", <<command>>)
            /\ pc' = "raised"
  /\ UNCHANGED <<inputs, main_locals, request_locals, execl_calls,
                 exit_status>>

\* if command not in ("git-receive-pack", "git-upload-archive", "git-upload-pack")
CheckCommand ==
  /\ pc = "check_command"
  /\ stages' = Append(stages, "check_command")
  /\ IF command \in GitCommands
       THEN pc' = "unpack_args" /\ UNCHANGED exception
       ELSE /\ exception' = ClientError("Invalid git command", <<command>>)
            /\ pc' = "raised"
  /\ UNCHANGED <<inputs, main_locals, request_locals, execl_calls,
                 exit_status>>

\* (requested_host_and_path,) = args
UnpackArgs ==
  /\ pc = "unpack_args"
  /\ stages' = Append(stages, "unpack_args")
  /\ IF Len(args) = 1
       THEN /\ requested_host_and_path' = args[1]
            /\ pc' = "match_target"
            /\ UNCHANGED exception
       ELSE /\ exception' = ClientError("Expected exactly one argument", args)
            /\ pc' = "raised"
            /\ UNCHANGED requested_host_and_path
  /\ UNCHANGED <<inputs, main_locals, ssh_original_command, command, args,
                 requested_host, requested_path, execl_calls, exit_status>>

\* m = re.match(..., requested_host_and_path)
MatchTarget ==
  /\ pc = "match_target"
  /\ stages' = Append(stages, "match_target")
  /\ LET m == target_re(requested_host_and_path)
     IN  IF m.ok
           THEN /\ requested_host' = m.host
                /\ requested_path' = m.path
                /\ pc' = "traversal_guard"
                /\ UNCHANGED exception
           ELSE /\ exception' =
                     ClientError("Expected parameter to be '<user>@<host>:<path>'",
                                 <<command, requested_host_and_path>>)
                /\ pc' = "raised"
                /\ UNCHANGED <<requested_host, requested_path>>
  /\ UNCHANGED <<inputs, main_locals, ssh_original_command, command, args,
                 requested_host_and_path, execl_calls, exit_status>>

\* if ".." in requested_path or requested_path.startswith("/")
TraversalGuard ==
  /\ pc = "traversal_guard"
  /\ stages' = Append(stages, "traversal_guard")
  /\ IF HasDotDot(requested_path) \/ StartsWithSlash(requested_path)
       THEN /\ exception' =
                 ClientError("Expected parameter to be <user>@<host>:<path>",
                             <<command, requested_host_and_path>>)
            /\ pc' = "raised"
       ELSE pc' = "assert_client_allowed" /\ UNCHANGED exception
  /\ UNCHANGED <<inputs, main_locals, request_locals, execl_calls,
                 exit_status>>

(***************************************************************************)
(* main, continued                                                         *)
(***************************************************************************)
\* assert_client_allowed(client_allow_list, requested_host, requested_path)
AssertClientAllowed ==
  /\ pc = "assert_client_allowed"
  /\ stages' = Append(stages, "assert_client_allowed")
  /\ IF assert_client_allowed(client_allow_list, requested_host, requested_path)
       THEN pc' = "connect_client_to_remote" /\ UNCHANGED exception
       ELSE /\ exception' = ClientError("Access is not allowed",
                                        <<requested_host, requested_path>>)
            /\ pc' = "raised"
  /\ UNCHANGED <<inputs, main_locals, request_locals, execl_calls,
                 exit_status>>

\* connect_client_to_remote(requested_command, requested_host, requested_path):
\* os.execl replaces the process image, or raises OSError when the binary is
\* missing or not executable.
ConnectClientToRemote ==
  /\ pc = "connect_client_to_remote"
  /\ stages' = Append(stages, "connect_client_to_remote")
  /\ execl_calls' =
       Append(execl_calls, execl_args(command, requested_host, requested_path))
  /\ \E replaced \in BOOLEAN :
       IF replaced
         THEN pc' = "replaced" /\ UNCHANGED exception
         ELSE exception' = OSError("execl", <<SSH_PATH>>) /\ pc' = "raised"
  /\ UNCHANGED <<inputs, main_locals, request_locals, exit_status>>

(***************************************************************************)
(* if __name__ == "__main__": the two except clauses; any other exception  *)
(* reaches the interpreter, which prints the traceback and exits with 1.   *)
(***************************************************************************)
status_of(e) ==
  IF e.exc = "ConfigError" THEN 1
  ELSE IF e.exc = "ClientError" THEN 2
  ELSE 1

ExceptHandler ==
  /\ pc = "raised"
  /\ exit_status' = <<status_of(exception)>>
  /\ pc' = "exited"
  /\ UNCHANGED <<inputs, main_locals, request_locals, exception, execl_calls,
                 stages>>

(***************************************************************************)
(* The inputs of a run.                                                    *)
(***************************************************************************)
\* All strings over an alphabet, up to a length.
Strs(Alphabet, n) == UNION {[1..k -> Alphabet] : k \in 0..n}

\* All lists of elements of S, up to a length.
Lists(S, n) == UNION {[1..k -> S] : k \in 0..n}

Executable == <<"x">>
ConfigPath == <<"f">>
Client1 == <<"c", "1">>
Client2 == <<"c", "2">>
UnknownClient == <<"c", "9">>
Foo == <<"f", "o", "o">>
HostGH == <<"g", "@", "h">>
HostGX == <<"g", "@", "x">>
HostAA == <<"a", "@", "a">>

\* <host>:<path>
Target(host, path) == host \o <<":">> \o path

\* sys.argv: the argument counts of test_argv_error, and the identities.
Argvs ==
  { <<>>,
    <<Executable>>,
    <<Executable, ConfigPath>>,
    <<Executable, ConfigPath, Client1>>,
    <<Executable, ConfigPath, Client2>>,
    <<Executable, ConfigPath, UnknownClient>>,
    <<Executable, ConfigPath, Client1, <<"e">>>> }

\* A configuration of two clients with different allow lists, as
\* DEFAULT_CONFIG of the tests.
DefaultConfig ==
  Obj(<< Member(Client1, Arr(<< Str(Target(HostGH, <<"a">>)),
                              Str(Target(HostGH, <<"c", "/", "*">>)) >>)),
         Member(Client2, Arr(<< Str(Target(<<"g", "@", "*">>, <<"c">>)),
                              Str(Target(HostGX, <<"*">>)) >>)) >>)

\* Client1 is allowed nothing, Client2 everything on one host.
OtherOnlyConfig ==
  Obj(<< Member(Client1, Arr(<<>>)),
         Member(Client2, Arr(<< Str(Target(HostGH, <<"*">>)) >>)) >>)

\* Documents with a fault, in Client2's entry where there is a Client1.
FaultyConfigs ==
  { NonObj,
    Obj(<< Member(<<"c", " ", "1">>, Arr(<<>>)) >>),
    Obj(<< Member(Client1, Arr(<< Str(Target(HostGH, <<"*">>)) >>)),
           Member(Client2, NonArr) >>),
    Obj(<< Member(Client1, Arr(<< Str(Target(HostGH, <<"*">>)) >>)),
           Member(Client2, Arr(<< NonStr >>)) >>),
    Obj(<< Member(Client1, Arr(<< Str(Target(HostGH, <<"*">>)) >>)),
           Member(Client2, Arr(<< Str(<<"h", ":", "a">>) >>)) >>) }

ConfigFile(status, doc) == [status |-> status, doc |-> doc]

ConfigFiles ==
  { ConfigFile(st, NoConfig) : st \in {"missing", "unreadable", "invalid"} }
  \cup { ConfigFile("ok", d) :
           d \in {DefaultConfig, OtherOnlyConfig, Obj(<<>>)} \cup FaultyConfigs }

NoEnviron == [present |-> FALSE, value |-> <<>>]
Environ(value) == [present |-> TRUE, value |-> value]

\* The characters of the requested paths drawn for whole runs.
RunPathAlphabet == {"a", "c", "/", "."}

RunTargets ==
  { Target(h, p) : h \in {HostGH, HostGX}, p \in Strs(RunPathAlphabet, MaxRunPathLen) }
  \cup { HostGH, <<"h", ":", "a">> }

\* The ways a client writes a command and one target.
CommandLinesOf(cmd, t) ==
  { cmd \o <<" ">> \o t,
    cmd \o <<" ", "'">> \o t \o <<"'">>,
    cmd \o <<" ", "\"">> \o t \o <<"\"">>,
    cmd \o <<" ">> \o t \o <<" ", "x">>,
    cmd \o <<" ", "'">> \o t }

CommandLines ==
  UNION { CommandLinesOf(cmd, t) \cup {cmd, cmd \o <<" ">>} :
            cmd \in GitCommands \cup {Foo}, t \in RunTargets }

\* A few command lines of each kind, to combine with every argv and file.
SampleCommandLines ==
  { <<>>,
    GIT_UPLOAD_PACK \o <<" ">> \o Target(HostGH, <<"a">>),
    GIT_UPLOAD_PACK \o <<" ">> \o Target(HostGH, <<"z">>),
    GIT_UPLOAD_PACK \o <<" ">> \o Target(HostGH, <<".", ".">>),
    GIT_UPLOAD_PACK \o <<" ", "'">> \o Target(HostGH, <<"a">>),
    Foo \o <<" ">> \o Target(HostGH, <<"a">>) \o <<" ", "x">> }

(***************************************************************************)
(* The state main starts in.                                               *)
(***************************************************************************)
Start(a, f, e) ==
  /\ argv = a
  /\ config_file = f
  /\ environ = e
  /\ pc = "parse_argv"
  /\ config = NoConfig
  /\ client_name = <<>>
  /\ client_allow_list = <<>>
  /\ ssh_original_command = <<>>
  /\ command = <<>>
  /\ args = <<>>
  /\ requested_host_and_path = <<>>
  /\ requested_host = <<>>
  /\ requested_path = <<>>
  /\ exception = NoError
  /\ execl_calls = <<>>
  /\ exit_status = <<>>
  /\ stages = <<>>

\* Every argv and configuration file with a few command lines, and every
\* command line with the valid configurations.
Init ==
  \/ \E a \in Argvs, f \in ConfigFiles,
        e \in {NoEnviron} \cup {Environ(v) : v \in SampleCommandLines} :
       Start(a, f, e)
  \/ \E id \in {Client1, Client2}, d \in {DefaultConfig, OtherOnlyConfig},
        v \in CommandLines :
       Start(<<Executable, ConfigPath, id>>, ConfigFile("ok", d), Environ(v))

Next ==
  \/ ParseArgv
  \/ LoadConfig
  \/ CheckConfig
  \/ LookupClient
  \/ ReadEnviron
  \/ Tokenize
  \/ CheckCommand
  \/ UnpackArgs
  \/ MatchTarget
  \/ TraversalGuard
  \/ AssertClientAllowed
  \/ ConnectClientToRemote
  \/ ExceptHandler

Spec == Init /\ [][Next]_vars

(***************************************************************************)
(* Runs taken up where get_requested_remote has split the command line:    *)
(* the state main is in, at the regular expression of the target, when the *)
(* client sent the command and the token, quoted as git quotes it.         *)
(***************************************************************************)
\* sq_quote of the git client: '...' with each ' written '\''
RECURSIVE ClientQuoteBody(_)
ClientQuoteBody(s) ==
  IF s = <<>> THEN <<>>
  ELSE (IF Head(s) = "'" THEN <<"'", "\\", "'", "'">> ELSE <<Head(s)>>)
       \o ClientQuoteBody(Tail(s))

ClientQuote(s) == <<"'">> \o ClientQuoteBody(s) \o <<"'">>

AtMatchTarget(doc, id, cmd, token) ==
  /\ argv = <<Executable, ConfigPath, id>>
  /\ config_file = ConfigFile("ok", doc)
  /\ environ = Environ(cmd \o <<" ">> \o ClientQuote(token))
  /\ pc = "match_target"
  /\ config = doc
  /\ client_name = id
  /\ client_allow_list = Lookup(doc, id)
  /\ ssh_original_command = cmd \o <<" ">> \o ClientQuote(token)
  /\ command = cmd
  /\ args = <<token>>
  /\ requested_host_and_path = token
  /\ requested_host = <<>>
  /\ requested_path = <<>>
  /\ exception = NoError
  /\ execl_calls = <<>>
  /\ exit_status = <<>>
  /\ stages = << "argv", "load_config", "check_config", "lookup_client",
                 "read_environ", "tokenize", "check_command", "unpack_args" >>

\* Client1 is allowed one repository, Client2 every path of the host.
RequestConfig ==
  Obj(<< Member(Client1, Arr(<< Str(Target(HostAA, <<"a">>)) >>)),
         Member(Client2, Arr(<< Str(Target(HostAA, <<"*">>)) >>)) >>)

\* The characters that decide the grammar of the target.
TokenAlphabet == {"a", "@", ":", "'", "\n"}

\* The characters that decide the traversal guard and the quoting.
PathAlphabet == {"a", ".", "/", "'", "\"", "\\", "$"}

\* Every token over TokenAlphabet, and every path over PathAlphabet after a
\* well-formed host.
InitRequest ==
  \/ \E token \in Strs(TokenAlphabet, MaxTokenLen) :
       AtMatchTarget(RequestConfig, Client1, GIT_UPLOAD_PACK, token)
  \/ \E id \in {Client1, Client2}, path \in Strs(PathAlphabet, MaxPathLen) :
       AtMatchTarget(RequestConfig, id, GIT_RECEIVE_PACK, Target(HostAA, path))

NextRequest ==
  \/ MatchTarget
  \/ TraversalGuard
  \/ AssertClientAllowed
  \/ ConnectClientToRemote
  \/ ExceptHandler

SpecRequest == InitRequest /\ [][NextRequest]_vars

\* The state AtMatchTarget describes is the one main reaches from its start
\* on these inputs.
StartedConsistently ==
  /\ Len(argv) = 3 /\ client_name = argv[3]
  /\ config_file.status = "ok" /\ config = config_file.doc
  /\ check_config(config) = NoError
  /\ HasKey(config, client_name)
  /\ client_allow_list = Lookup(config, client_name)
  /\ environ.present /\ ssh_original_command = environ.value
  /\ shlex_split(ssh_original_command) =
       [ok |-> TRUE, tokens |-> <<command>> \o args]
  /\ command \in GitCommands
  /\ Len(args) = 1 /\ requested_host_and_path = args[1]

(***************************************************************************)
(* Runs taken up where get_requested_remote has returned: the state main   *)
(* is in, at the call of assert_client_allowed, for a client whose allow   *)
(* list is the given one and who requested host:path.                      *)
(***************************************************************************)
AtAssertClientAllowed(allow_list, host, path) ==
  LET doc == Obj(<< Member(Client1,
                           Arr([i \in 1..Len(allow_list) |-> Str(allow_list[i])])) >>)
      token == Target(host, path)
      line == GIT_UPLOAD_PACK \o <<" ">> \o ClientQuote(token)
  IN  /\ argv = <<Executable, ConfigPath, Client1>>
      /\ config_file = ConfigFile("ok", doc)
      /\ environ = Environ(line)
      /\ pc = "assert_client_allowed"
      /\ config = doc
      /\ client_name = Client1
      /\ client_allow_list = allow_list
      /\ ssh_original_command = line
      /\ command = GIT_UPLOAD_PACK
      /\ args = <<token>>
      /\ requested_host_and_path = token
      /\ requested_host = host
      /\ requested_path = path
      /\ exception = NoError
      /\ execl_calls = <<>>
      /\ exit_status = <<>>
      /\ stages = << "argv", "load_config", "check_config", "lookup_client",
                     "read_environ", "tokenize", "check_command", "unpack_args",
                     "match_target", "traversal_guard" >>

\* host:path is a target get_requested_remote returns.
Requestable(host, path) ==
  /\ target_re(Target(host, path)) = [ok |-> TRUE, host |-> host, path |-> path]
  /\ ~HasDotDot(path) /\ ~StartsWithSlash(path)

\* Patterns of each kind: literal, "*", "?", brackets, in host and in path.
AllowItems ==
  { Target(HostGH, <<"a">>),
    Target(HostGH, <<"a", "*">>),
    Target(<<"g", "@", "*">>, <<"c">>),
    Target(HostGX, <<"?">>),
    Target(HostGH, <<"[", "a", "c", "]">>),
    Target(<<"g", "@", "?">>, <<"a", "/", "c">>) }

AllowPaths == { <<"a">>, <<"c">>, <<"a", "c">>, <<"a", "/", "c">>, <<"c", "a">> }

HostGlobs ==
  { HostGH, HostGX, <<"G", "@", "h">>, <<"g", "@", "*">>, <<"?", "@", "h">>,
    <<"g", "@", "[", "h", "x", "]">>, <<"g", "@", "[", "h">> }

Hosts == { HostGH, HostGX, <<"G", "@", "h">>, <<"g", "@", "[", "h">> }

\* The characters of the path patterns and of the requested paths.
GlobAlphabet == {"a", "/", "*", "?", "[", "]", "!"}
ReqAlphabet == {"a", "A", "/", "["}

\* Every list of AllowItems; every path pattern against every path; the host
\* patterns against the hosts.
InitAllow ==
  \/ \E l \in Lists(AllowItems, MaxAllowLen), h \in {HostGH, HostGX},
        p \in AllowPaths :
       AtAssertClientAllowed(l, h, p)
  \/ \E pg \in Strs(GlobAlphabet, MaxGlobLen) \ {<<>>},
        p \in {q \in Strs(ReqAlphabet, MaxReqLen) : Requestable(HostGH, q)} :
       AtAssertClientAllowed(<<Target(HostGH, pg)>>, HostGH, p)
  \/ \E hg \in HostGlobs, h \in Hosts, pg \in {<<"a">>, <<"*">>},
        p \in {<<"a">>, <<"A">>} :
       AtAssertClientAllowed(<<Target(hg, pg)>>, h, p)

NextAllow ==
  \/ AssertClientAllowed
  \/ ConnectClientToRemote
  \/ ExceptHandler

SpecAllow == InitAllow /\ [][NextAllow]_vars

\* The state AtAssertClientAllowed describes is the one main reaches.
AllowStartedConsistently ==
  /\ StartedConsistently
  /\ Requestable(requested_host, requested_path)
  /\ requested_host_and_path = Target(requested_host, requested_path)

(***************************************************************************)
(* Runs taken up where the configuration has been decoded: the state main  *)
(* is in, at the call of check_config, for Client1 requesting a@a:a.       *)
(***************************************************************************)
AtCheckConfig(doc) ==
  /\ argv = <<Executable, ConfigPath, Client1>>
  /\ config_file = ConfigFile("ok", doc)
  /\ environ = Environ(GIT_UPLOAD_PACK \o <<" ">> \o Target(HostAA, <<"a">>))
  /\ pc = "check_config"
  /\ config = doc
  /\ client_name = Client1
  /\ client_allow_list = <<>>
  /\ ssh_original_command = <<>>
  /\ command = <<>>
  /\ args = <<>>
  /\ requested_host_and_path = <<>>
  /\ requested_host = <<>>
  /\ requested_path = <<>>
  /\ exception = NoError
  /\ execl_calls = <<>>
  /\ exit_status = <<>>
  /\ stages = << "argv", "load_config" >>

\* The characters that decide a client name and an allow list item.
NameAlphabet == {"c", " ", "\n"}
ItemAlphabet == {"a", "@", ":", " ", "\n"}

\* Values of each kind: not a list, lists with an element that is not a
\* string, with a well-formed item, with a malformed one.
ConfigValues ==
  { NonArr,
    Arr(<<>>),
    Arr(<< Str(Target(HostAA, <<"a">>)), NonStr >>),
    Arr(<< Str(Target(HostAA, <<"a">>)) >>),
    Arr(<< Str(Target(HostAA, <<"a">>)), Str(<<"a", ":", "a">>) >>) }

\* Every document of one or two members with a name over NameAlphabet and a
\* value of ConfigValues (json.load gives a dict: its keys are distinct), and
\* every item over ItemAlphabet in Client1's list.
InitConfig ==
  \/ \E doc \in {NonObj, Obj(<<>>)} : AtCheckConfig(doc)
  \/ \E k \in Strs(NameAlphabet, MaxNameLen), v \in ConfigValues :
       AtCheckConfig(Obj(<< Member(k, v) >>))
  \/ \E k1 \in Strs(NameAlphabet, MaxNameLen),
        k2 \in Strs(NameAlphabet, MaxNameLen),
        v1 \in ConfigValues, v2 \in ConfigValues :
       /\ k1 # k2
       /\ AtCheckConfig(Obj(<< Member(k1, v1), Member(k2, v2) >>))
  \/ \E item \in Strs(ItemAlphabet, MaxItemLen) :
       AtCheckConfig(Obj(<< Member(Client1, Arr(<< Str(item) >>)) >>))

NextConfig ==
  \/ CheckConfig
  \/ LookupClient
  \/ ReadEnviron
  \/ Tokenize
  \/ CheckCommand
  \/ UnpackArgs
  \/ MatchTarget
  \/ TraversalGuard
  \/ AssertClientAllowed
  \/ ConnectClientToRemote
  \/ ExceptHandler

SpecConfig == InitConfig /\ [][NextConfig]_vars

(***************************************************************************)
(* What the inputs of a run determine, stage by stage.                     *)
(***************************************************************************)
Terminated == pc \in {"exited", "replaced"}

ArgvOk == Len(argv) = 3
FileOk == config_file.status = "ok"
SchemaOk == check_config(config_file.doc) = NoError
IdentityOk == HasKey(config_file.doc, argv[3])
EnvironOk == environ.present

\* The command line as the stages of get_requested_remote see it: the first
\* of them that fails (6 tokenization .. 10 traversal guard; 0: none), and
\* the command, host and path parsed when none fails.
NoMatch == [ok |-> FALSE, host |-> <<>>, path |-> <<>>]
RequestOf(split) ==
  LET tokens == split.tokens
      m == IF split.ok /\ Len(tokens) = 2 THEN target_re(tokens[2]) ELSE NoMatch
      failing ==
        IF ~split.ok \/ tokens = <<>> THEN 6
        ELSE IF tokens[1] \notin GitCommands THEN 7
        ELSE IF Len(tokens) # 2 THEN 8
        ELSE IF ~m.ok THEN 9
        ELSE IF HasDotDot(m.path) \/ StartsWithSlash(m.path) THEN 10
        ELSE 0
  IN  [failing |-> failing,
       tokens |-> tokens,
       command |-> IF failing = 0 THEN tokens[1] ELSE <<>>,
       host |-> m.host,
       path |-> m.path]

InRequest == RequestOf(shlex_split(environ.value))

\* Some pattern of the identity's own list matches both host and path.
OwnListMatches(host, path) ==
  \E i \in 1..Len(Lookup(config_file.doc, argv[3])) :
    LET item == Lookup(config_file.doc, argv[3])[i]
    IN  /\ fnmatchcase(host, SplitFirstColon(item)[1])
        /\ fnmatchcase(path, SplitFirstColon(item)[2])

AuthorizedAs(req) ==
  /\ ArgvOk /\ FileOk /\ SchemaOk /\ IdentityOk /\ EnvironOk
  /\ req.failing = 0
  /\ OwnListMatches(req.host, req.path)

Authorized == AuthorizedAs(InRequest)

\* C1: the transport binary is exec'd only in a run whose configuration was
\* read and passed check_config, whose identity is a key of it, whose command
\* line parsed into (command, host, path), and in which a pattern of that
\* identity's own allow list matches both host and path; in every other run no
\* exec call is made.
C1_ExecOnlyIfAuthorized == execl_calls # <<>> => Authorized

\* An exec for Client2 of a request that Client1's list does not allow.
C1_Witness ==
  /\ pc = "replaced"
  /\ execl_calls # <<>>
  /\ client_name = Client2
  /\ HasKey(config, Client1)
  /\ ~assert_client_allowed(Lookup(config, Client1), requested_host,
                            requested_path)

\* C5: an authorized request makes exactly one process-replacement call, with
\* the arguments ("/usr/bin/ssh", "/usr/bin/ssh", host, "<command> <quoted
\* path>"): the constant path twice, the parsed host as its own entry, the
\* parsed command unchanged; and no run makes more than one call.
C5_OneExecWithExactArgs ==
  /\ Len(execl_calls) <= 1
  /\ Terminated =>
       LET req == InRequest
       IN  AuthorizedAs(req) =>
             execl_calls =
               << << <<"/", "u", "s", "r", "/", "b", "i", "n", "/", "s", "s", "h">>,
                     <<"/", "u", "s", "r", "/", "b", "i", "n", "/", "s", "s", "h">>,
                     req.host,
                     req.command \o <<" ">> \o shlex_quote(req.path) >> >>

\* The exec of test_successful: a quoted target, path with a "/".
C5_Witness ==
  /\ pc = "replaced"
  /\ Len(execl_calls) = 1
  /\ command = GIT_RECEIVE_PACK
  /\ requested_host = HostGH
  /\ requested_path = <<"c", "/">>
  /\ execl_calls[1][4] = GIT_RECEIVE_PACK \o <<" ", "c", "/">>

\* C7: the exit status is 1 exactly when the run failed with a ConfigError and
\* 2 exactly when it failed with a ClientError; a failure of the
\* process-replacement call ends the process with a status that is neither.
C7_ExitStatusIdentifiesKind ==
  pc = "exited" =>
    /\ (exit_status = <<1>>) <=> (exception.exc = "ConfigError")
    /\ (exit_status = <<2>>) <=> (exception.exc = "ClientError")
    /\ exception.exc = "OSError" => exit_status \notin {<<1>>, <<2>>}

(***************************************************************************)
(* C9: the stages in their order.                                          *)
(***************************************************************************)
StageOrder ==
  << "argv", "load_config", "check_config", "lookup_client", "read_environ",
     "tokenize", "check_command", "unpack_args", "match_target",
     "traversal_guard", "assert_client_allowed", "connect_client_to_remote" >>

\* The earliest stage that fails on the inputs (the exec stage when none).
FirstFailingAs(req) ==
  IF ~ArgvOk THEN 1
  ELSE IF ~FileOk THEN 2
  ELSE IF ~SchemaOk THEN 3
  ELSE IF ~IdentityOk THEN 4
  ELSE IF ~EnvironOk THEN 5
  ELSE IF req.failing # 0 THEN req.failing
  ELSE IF ~OwnListMatches(req.host, req.path) THEN 11
  ELSE 12

FirstFailing == FirstFailingAs(InRequest)

\* The errors a stage reports.
StageErrors(k) ==
  CASE k = 1 -> {<<"ConfigError", "Syntax">>}
    [] k = 2 -> {<<"ConfigError", "Invalid configuration">>,
                 <<"ConfigError", "Non-existent configuration">>,
                 <<"ConfigError", "Unreadable configuration">>}
    [] k = 3 -> {<<"ConfigError", "Config must be a JSON object">>,
                 <<"ConfigError", "Invalid client name">>,
                 <<"ConfigError", "is not a JSON array">>,
                 <<"ConfigError", "is not an array of strings">>,
                 <<"ConfigError", "Invalid allow list item">>}
    [] k = 4 -> {<<"ConfigError", "Unknown client name">>}
    [] k = 5 -> {<<"ConfigError", "this is not a shell">>}
    [] k = 6 -> {<<"ClientError", "Failed to tokenize command">>}
    [] k = 7 -> {<<"ClientError", "Invalid git command">>}
    [] k = 8 -> {<<"ClientError", "Expected exactly one argument">>}
    [] k = 9 -> {<<"ClientError", "Expected parameter to be '<user>@<host>:<path>'">>}
    [] k = 10 -> {<<"ClientError", "Expected parameter to be <user>@<host>:<path>">>}
    [] k = 11 -> {<<"ClientError", "Access is not allowed">>}
    [] OTHER -> {<<"none", "none">>, <<"OSError", "execl">>}

\* C9: the stages are evaluated in the fixed order, the run ends at the
\* earliest stage that fails with that stage's error, and no later stage is
\* evaluated: an unrecognized first token is "Invalid git command" whatever
\* the number of tokens, and a configuration fault is a ConfigError whatever
\* the request.
C9_FailFastInStageOrder ==
  LET k == FirstFailing
  IN  /\ stages = SubSeq(StageOrder, 1, Len(stages))
      /\ Len(stages) <= k
      /\ Terminated =>
           /\ Len(stages) = k
           /\ <<exception.exc, exception.rule>> \in StageErrors(k)

\* A run with a schema fault in Client2's entry and an unrecognized command
\* with two arguments, for Client1: it ended at check_config.
C9_Witness ==
  /\ pc = "exited"
  /\ argv = <<Executable, ConfigPath, Client1>>
  /\ config_file.status = "ok"
  /\ HasKey(config_file.doc, Client1)
  /\ ~SchemaOk
  /\ environ.present
  /\ InRequest.failing = 7 /\ InRequest.tokens[1] = Foo /\ Len(InRequest.tokens) = 3
  /\ exception.exc = "ConfigError"
  /\ stages = SubSeq(StageOrder, 1, 3)

(***************************************************************************)
(* Claims about get_requested_remote and the quoting, under SpecRequest.   *)
(***************************************************************************)
\* get_requested_remote has returned (command, requested_host,
\* requested_path): the traversal guard was evaluated and did not raise.
GotRemote ==
  /\ \E i \in 1..Len(stages) : stages[i] = "traversal_guard"
  /\ pc \in {"raised", "exited"} => stages[Len(stages)] # "traversal_guard"

\* C2: a request whose parsed path contains ".." or starts with "/" is
\* rejected with ClientError by get_requested_remote, before the allow list is
\* consulted and whatever it allows; so the path of every triple returned, and
\* of every exec, does not start with "/" and does not contain "..".
C2_TraversalGuard ==
  LET m == target_re(requested_host_and_path)
      traversing == m.ok /\ (HasDotDot(m.path) \/ StartsWithSlash(m.path))
  IN  /\ (Terminated /\ traversing) =>
            /\ exception.exc = "ClientError"
            /\ stages[Len(stages)] = "traversal_guard"
            /\ \A i \in 1..Len(stages) : stages[i] # "assert_client_allowed"
            /\ execl_calls = <<>>
      /\ (GotRemote \/ execl_calls # <<>>) =>
            /\ requested_path = m.path
            /\ ~(Len(requested_path) >= 1 /\ requested_path[1] = "/")
            /\ \A i \in 1..(Len(requested_path) - 1) :
                 ~(requested_path[i] = "." /\ requested_path[i + 1] = ".")

\* A rejected traversal that the identity's allow list would have matched.
C2_Witness ==
  /\ pc = "exited"
  /\ requested_path = <<"a", "/", ".", ".">>
  /\ assert_client_allowed(client_allow_list, requested_host, requested_path)
  /\ exception.exc = "ClientError"
  /\ execl_calls = <<>>

\* The grammar <user>@<host>:<path> as the claim words it: before the first
\* ":" exactly one "@" with a non-empty side each, no whitespace; after it a
\* non-empty path with no whitespace and no single quote.
TargetGrammar(token) ==
  LET host == SplitFirstColon(token)[1]
      path == SplitFirstColon(token)[2]
  IN  /\ \E i \in 1..Len(token) : token[i] = ":"
      /\ Cardinality({i \in 1..Len(host) : host[i] = "@"}) = 1
      /\ host[1] # "@" /\ host[Len(host)] # "@"
      /\ \A i \in 1..Len(host) : host[i] \notin Whitespace
      /\ path # <<>>
      /\ \A i \in 1..Len(path) : path[i] \notin Whitespace \cup {"'"}

\* C3: a token that is not wholly of the form <user>@<host>:<path> makes
\* get_requested_remote fail with ClientError and no triple is returned; a
\* triple is returned only for tokens of that form, with host and path the
\* parts of the token before and after its first ":".
C3_TargetGrammar ==
  /\ (Terminated /\ ~TargetGrammar(requested_host_and_path)) =>
        exception.exc = "ClientError" /\ ~GotRemote /\ execl_calls = <<>>
  /\ GotRemote =>
        /\ TargetGrammar(requested_host_and_path)
        /\ requested_host = SplitFirstColon(requested_host_and_path)[1]
        /\ requested_path = SplitFirstColon(requested_host_and_path)[2]

\* C4: for every path get_requested_remote accepts, shlex.quote(path)
\* tokenizes back to the one word path, and the last exec argument tokenizes
\* to exactly the two words command and path.
C4_QuotingRoundTrip ==
  /\ GotRemote =>
       shlex_split(shlex_quote(requested_path)) =
         [ok |-> TRUE, tokens |-> <<requested_path>>]
  /\ execl_calls # <<>> =>
       shlex_split(execl_calls[1][4]) =
         [ok |-> TRUE, tokens |-> <<command, requested_path>>]

\* An exec of a path that had to be quoted: a double quote and a backslash.
C4_Witness ==
  /\ pc = "replaced"
  /\ requested_path = <<"a", "\"", "\\", "$">>
  /\ execl_calls[1][4] =
       GIT_RECEIVE_PACK \o <<" ", "'", "a", "\"", "\\", "$", "'">>


(***************************************************************************)
(* Claims about assert_client_allowed, under SpecAllow.                    *)
(***************************************************************************)
\* assert_client_allowed has been called, and it returned (TRUE) or raised.
Decided == \E i \in 1..Len(stages) : stages[i] = "assert_client_allowed"
Allowed ==
  ~(pc \in {"raised", "exited"} /\ stages[Len(stages)] = "assert_client_allowed")

\* The list in the order given by a permutation of its indices.
IndexPermutations(n) ==
  {f \in [1..n -> 1..n] : \A i, j \in 1..n : f[i] = f[j] => i = j}
Permuted(l, f) == [i \in 1..Len(l) |-> l[f[i]]]

\* C6: assert_client_allowed returns normally exactly when some pattern of
\* the list matches both host and path, and raises ClientError("Access to
\* <host>:<path> is not allowed") otherwise; every permutation of the list,
\* and the call repeated, gives the same decision.
C6_OrderIndependent ==
  Decided =>
    /\ Allowed <=>
         \E i \in 1..Len(client_allow_list) :
           /\ fnmatchcase(requested_host,
                          SplitFirstColon(client_allow_list[i])[1])
           /\ fnmatchcase(requested_path,
                          SplitFirstColon(client_allow_list[i])[2])
    /\ ~Allowed =>
         exception = ClientError("Access is not allowed",
                                 <<requested_host, requested_path>>)
    /\ \A f \in IndexPermutations(Len(client_allow_list)) :
         assert_client_allowed(Permuted(client_allow_list, f), requested_host,
                               requested_path) = Allowed

\* Allowed by the second pattern of a list whose first pattern does not
\* match the host.
C6_Witness ==
  /\ Decided /\ Allowed
  /\ client_allow_list = << Target(HostGX, <<"?">>), Target(HostGH, <<"a", "*">>) >>
  /\ requested_host = HostGH
  /\ requested_path = <<"a", "/", "c">>

SinglePattern == Decided /\ Len(client_allow_list) = 1
PatternHost == SplitFirstColon(client_allow_list[1])[1]
PatternPath == SplitFirstColon(client_allow_list[1])[2]
Contains(s, chars) == \E i \in 1..Len(s) : s[i] \in chars

\* C10, as claimed: a pattern with neither "*" nor "?" authorizes exactly the
\* target equal to it, character for character.
C10_LiteralWithoutStarOrQuestion ==
  (SinglePattern /\ ~Contains(client_allow_list[1], {"*", "?"})) =>
    (Allowed <=> (requested_host = PatternHost /\ requested_path = PatternPath))

\* C10, amended: a pattern with none of "*", "?" and "[" authorizes exactly
\* the target equal to it, character for character and case-sensitively; "*"
\* alone matches every path, "/" included, and "?" alone exactly the paths of
\* one character.
C10_LiteralWithoutWildcard ==
  /\ (SinglePattern /\ ~Contains(client_allow_list[1], {"*", "?", "["})) =>
       (Allowed <=> (requested_host = PatternHost /\ requested_path = PatternPath))
  /\ (SinglePattern /\ PatternHost = requested_host /\ PatternPath = <<"*">>) =>
       Allowed
  /\ (SinglePattern /\ PatternHost = requested_host /\ PatternPath = <<"?">>) =>
       (Allowed <=> Len(requested_path) = 1)

\* A literal pattern with a "/" that allowed the path equal to it.
C10_Witness ==
  /\ SinglePattern /\ Allowed
  /\ client_allow_list = << Target(HostGH, <<"a", "/">>) >>
  /\ requested_host = HostGH
  /\ requested_path = <<"a", "/">>


(***************************************************************************)
(* The claim about check_config, under SpecConfig.                         *)
(***************************************************************************)
\* check_config has been called, and it returned or raised.
Checked == \E i \in 1..Len(stages) : stages[i] = "check_config"
Accepted ==
  ~(pc \in {"raised", "exited"} /\ stages[Len(stages)] = "check_config")

NoWhitespace(s) == \A i \in 1..Len(s) : s[i] \notin Whitespace

\* <user>@<host>:<path> as the claim words it: exactly one "@" before the
\* first ":" and no whitespace character anywhere.
ItemGrammar(s) ==
  LET host == SplitFirstColon(s)[1]
      path == SplitFirstColon(s)[2]
  IN  /\ \E i \in 1..Len(s) : s[i] = ":"
      /\ Cardinality({i \in 1..Len(host) : host[i] = "@"}) = 1
      /\ host[1] # "@" /\ host[Len(host)] # "@"
      /\ path # <<>>
      /\ NoWhitespace(s)

NameGrammar(s) == s # <<>> /\ NoWhitespace(s)

\* The rules a document violates, by the message that names each.
ViolatedRules(cfg) ==
  IF cfg.type # "object" THEN {"Config must be a JSON object"}
  ELSE UNION {
    (IF ~NameGrammar(cfg.members[i].key) THEN {"Invalid client name"} ELSE {})
    \cup (IF cfg.members[i].value.type # "array"
            THEN {"is not a JSON array"} ELSE {})
    \cup (IF \E k \in 1..Len(cfg.members[i].value.elems) :
                cfg.members[i].value.elems[k].type # "string"
            THEN {"is not an array of strings"} ELSE {})
    \cup (IF \E k \in 1..Len(cfg.members[i].value.elems) :
                /\ cfg.members[i].value.elems[k].type = "string"
                /\ ~ItemGrammar(cfg.members[i].value.elems[k].s)
            THEN {"Invalid allow list item"} ELSE {})
    : i \in 1..Len(cfg.members) }

\* C8: check_config accepts a decoded configuration exactly when it is a
\* mapping whose keys are non-empty strings without whitespace and whose
\* values are lists of strings <user>@<host>:<path> without whitespace;
\* every other document raises ConfigError with the message of a rule it
\* violates.
C8_ConfigSchema ==
  Checked =>
    /\ Accepted <=> (ViolatedRules(config) = {})
    /\ ~Accepted =>
         /\ exception.exc = "ConfigError"
         /\ exception.rule \in ViolatedRules(config)

===========================================================================
